---- MODULE Spec2Model ----
(***************************************************************************)
(* Browser widgets of zimabook: the tracked textarea (textarea-wrapper),   *)
(* the live document (notebook.js) and the remote table (data-table).      *)
(* Every event handler of the three scripts is one action.  The browser is *)
(* single threaded, so a handler runs to completion before the next event. *)
(***************************************************************************)
EXTENDS Integers, Sequences, FiniteSets, TLC

\* JavaScript null / undefined (a missing attribute, an unset reference).
NULL == "<null>"

\* The empty object literal {}.
EmptyObject == [k \in {} |-> NULL]

\* The data of a socket.emit whose second argument is undefined.
Undefined == [undefined |-> TRUE]

VARIABLES
    \* ---- textarea-wrapper (src/static/textarea_wrapper.js)
    attrs,              \* the element's attributes: name -> string or NULL
    value,              \* this._textarea.value, the displayed text
    _originalContent,   \* this._originalContent
    _edited,            \* this._edited
    dataEdited,         \* this._textarea.dataset.edited
    focused,            \* the inner textarea has the focus
    connected,          \* the element is in the document
    \* ---- live document (src/static/notebook.js)
    lastScrolledTo,     \* var lastScrolledTo
    marked,             \* elements of the document carrying class scroll-to
    scrollLog,          \* the scrollIntoView calls made so far, in order
    \* ---- data-table (src/unnamed/part_000)
    serverUrl,          \* the server-url attribute, or NoUrl
    tables,             \* per table element rendered so far: its DataTable() calls
    shadowTable,        \* index in tables of the table in the shadow root, 0 = none
    pending,            \* column-fetch requests in flight
    alerts,             \* alert() calls made so far, in order
    \* ---- shared
    emitted,            \* socket.emit calls made by the handler that ran last
    last                \* the handler that ran last: [op, arg, threw]

textareaVars == <<attrs, value, _originalContent, _edited, dataEdited, focused, connected>>
notebookVars == <<lastScrolledTo, marked, scrollLog>>
tableVars == <<serverUrl, tables, shadowTable, pending, alerts>>
vars == <<textareaVars, notebookVars, tableVars, emitted, last>>

\* What a handler run leaves behind for the next state to see.
Ran(op, arg, threw) == [op |-> op, arg |-> arg, threw |-> threw]

\* One socket.emit(name, data) call.
Emit(name, data) == [name |-> name, data |-> data]

Truthy_notNull(s) == s # NULL

\* JavaScript truthiness of an attribute value (string or null).
Truthy(s) == s # NULL /\ s # ""

----------------------------------------------------------------------------
(***************************************************************************)
(* Tracked textarea                                                        *)
(***************************************************************************)

\* Values of the text attribute and of what a user types.
Texts == {"", "X", "Y", "Z"}

\* Values of the modify-event / focus-event attributes.
EvEdit == "{\"name\":\"edit\",\"params\":{\"cell_id\":\"c1\"}}"
EvFocus == "{\"name\":\"focus\",\"params\":{\"cell_id\":\"c1\",\"content\":\"old\"}}"
EvNoParams == "{\"name\":\"ping\"}"
EvMalformed == "{name:"
EventAttrValues == {"", EvEdit, EvFocus, EvNoParams, EvMalformed}

\* Values of the focus attribute.
FocusAttrValues == {"", "1"}

AttrNames == {"text", "focus", "modify-event", "focus-event"}

\* JSON.parse on the attribute values above: ok = FALSE is a SyntaxError.
JSONparse(s) ==
    CASE s = EvEdit -> [ok |-> TRUE, val |-> [name |-> "edit", params |-> [cell_id |-> "c1"]]]
      [] s = EvFocus -> [ok |-> TRUE, val |-> [name |-> "focus",
                                               params |-> [cell_id |-> "c1", content |-> "old"]]]
      [] s = EvNoParams -> [ok |-> TRUE, val |-> [name |-> "ping"]]
      [] OTHER -> [ok |-> FALSE, val |-> Undefined]

\* The value setter of HTMLTextAreaElement stores null as the empty string.
TextareaValue(v) == IF v = NULL THEN "" ELSE v

\* _setEdited(edited): the pair <<this._edited, dataset.edited>> it leaves.
_setEdited(edited) == <<edited, IF edited THEN "true" ELSE "false">>

_checkNoLongerEdited_never(val, orig, flags) == flags

\* _checkNoLongerEdited(): the flags after it, given the flags before it.
_checkNoLongerEdited(val, orig, flags) ==
    IF val = orig THEN _setEdited(FALSE) ELSE flags

\* An outcome of the emitting tail of a listener.
Outcome(emits, threw) == [emits |-> emits, threw |-> threw]

modifyEmit_noContent(modifyEvent, content) ==
    IF ~Truthy(modifyEvent) THEN Outcome(<<>>, FALSE)
    ELSE LET parsedEvent == JSONparse(modifyEvent)
         IN  IF ~parsedEvent.ok \/ "params" \notin DOMAIN parsedEvent.val
             THEN Outcome(<<>>, TRUE)
             ELSE Outcome(<<Emit(parsedEvent.val.name, parsedEvent.val.params)>>, FALSE)

\* Lines 28-34 of the input listener; content is this.content.
modifyEmit(modifyEvent, content) ==
    IF ~Truthy(modifyEvent) THEN Outcome(<<>>, FALSE)
    ELSE LET parsedEvent == JSONparse(modifyEvent)
         IN  IF ~parsedEvent.ok THEN Outcome(<<>>, TRUE)          \* SyntaxError
             ELSE IF "params" \notin DOMAIN parsedEvent.val
                  THEN Outcome(<<>>, TRUE)                        \* TypeError on undefined
             ELSE Outcome(<<Emit(parsedEvent.val.name,
                                 ("content" :> content) @@ parsedEvent.val.params)>>, FALSE)

focusEmit_withContent(focusEvent) ==
    IF ~Truthy(focusEvent) THEN Outcome(<<>>, FALSE)
    ELSE LET parsedEvent == JSONparse(focusEvent)
         IN  IF ~parsedEvent.ok THEN Outcome(<<>>, TRUE)
             ELSE IF "params" \notin DOMAIN parsedEvent.val
                  THEN Outcome(<<>>, TRUE)
             ELSE Outcome(<<Emit(parsedEvent.val.name,
                                 ("content" :> value) @@ parsedEvent.val.params)>>, FALSE)

\* Lines 38-42 of the focus listener.
focusEmit(focusEvent) ==
    IF ~Truthy(focusEvent) THEN Outcome(<<>>, FALSE)
    ELSE LET parsedEvent == JSONparse(focusEvent)
         IN  IF ~parsedEvent.ok THEN Outcome(<<>>, TRUE)
             ELSE IF "params" \notin DOMAIN parsedEvent.val
                  THEN Outcome(<<Emit(parsedEvent.val.name, Undefined)>>, FALSE)
             ELSE Outcome(<<Emit(parsedEvent.val.name, parsedEvent.val.params)>>, FALSE)

\* The 'input' listener: the user has changed the field to v.
OnInput(v) ==
    /\ connected
    /\ value' = v
    /\ LET flags == _checkNoLongerEdited(v, _originalContent, _setEdited(TRUE))
           out == modifyEmit(attrs["modify-event"], v)
       IN  /\ _edited' = flags[1]
           /\ dataEdited' = flags[2]
           /\ emitted' = out.emits
           /\ last' = Ran("input", v, out.threw)
    /\ UNCHANGED <<attrs, _originalContent, focused, connected, notebookVars, tableVars>>

textValueAfter_overwrite(edited, old, newValue) == TextareaValue(newValue)

\* Lines 65-67: the displayed value after a text attribute change.
textValueAfter(edited, old, newValue) ==
    IF ~edited THEN TextareaValue(newValue) ELSE old

\* attributeChangedCallback('text', old, newValue); newValue = NULL is removal.
TextAttributeChanged(newValue) ==
    /\ newValue = NULL => attrs["text"] # NULL
    /\ attrs' = [attrs EXCEPT !["text"] = newValue]
    /\ _originalContent' = newValue
    /\ value' = textValueAfter(_edited, value, newValue)
    /\ LET flags == _checkNoLongerEdited(value', newValue, <<_edited, dataEdited>>)
       IN  /\ _edited' = flags[1]
           /\ dataEdited' = flags[2]
    /\ emitted' = <<>>
    /\ last' = Ran("text", newValue, FALSE)
    /\ UNCHANGED <<focused, connected, notebookVars, tableVars>>

\* The inner textarea gains the focus: the 'focus' listener runs.
GainFocus(op, arg) ==
    LET out == focusEmit(attrs["focus-event"])
    IN  /\ focused' = TRUE
        /\ emitted' = out.emits
        /\ last' = Ran(op, arg, out.threw)

\* attributeChangedCallback('focus', old, newValue).  focus() on a field that
\* is not in the document or already has the focus does nothing.
FocusAttributeChanged(newValue) ==
    /\ newValue = NULL => attrs["focus"] # NULL
    /\ attrs' = [attrs EXCEPT !["focus"] = newValue]
    /\ IF Truthy(newValue)
       THEN IF connected /\ ~focused
            THEN GainFocus("focusAttr", newValue)
            ELSE /\ UNCHANGED focused
                 /\ emitted' = <<>>
                 /\ last' = Ran("focusAttr", newValue, FALSE)
       ELSE /\ focused' = FALSE
            /\ emitted' = <<>>
            /\ last' = Ran("focusAttr", newValue, FALSE)
    /\ UNCHANGED <<value, _originalContent, _edited, dataEdited, connected,
                   notebookVars, tableVars>>

\* The user clicks or tabs into the field.
UserFocus ==
    /\ connected /\ ~focused
    /\ GainFocus("focus", NULL)
    /\ UNCHANGED <<attrs, value, _originalContent, _edited, dataEdited, connected,
                   notebookVars, tableVars>>

\* The field loses the focus; there is no blur listener.
UserBlur ==
    /\ focused
    /\ focused' = FALSE
    /\ emitted' = <<>>
    /\ last' = Ran("blur", NULL, FALSE)
    /\ UNCHANGED <<attrs, value, _originalContent, _edited, dataEdited, connected,
                   notebookVars, tableVars>>

\* modify-event and focus-event are not observed: setting them runs no callback.
SetEventAttribute(name, newValue) ==
    /\ newValue = NULL => attrs[name] # NULL
    /\ attrs' = [attrs EXCEPT ![name] = newValue]
    /\ emitted' = <<>>
    /\ last' = Ran("setAttribute", <<name, newValue>>, FALSE)
    /\ UNCHANGED <<value, _originalContent, _edited, dataEdited, focused, connected,
                   notebookVars, tableVars>>

ConnectedCallback_resetsEdited ==
    /\ ~connected
    /\ connected' = TRUE
    /\ _originalContent' = (IF Truthy(attrs["text"]) THEN attrs["text"] ELSE "")
    /\ value' = TextareaValue(_originalContent')
    /\ _edited' = FALSE
    /\ dataEdited' = "false"
    /\ emitted' = <<>>
    /\ last' = Ran("connected", NULL, FALSE)
    /\ UNCHANGED <<attrs, focused, notebookVars, tableVars>>

\* connectedCallback()
ConnectedCallback ==
    /\ ~connected
    /\ connected' = TRUE
    /\ _originalContent' = (IF Truthy(attrs["text"]) THEN attrs["text"] ELSE "")
    /\ value' = TextareaValue(_originalContent')
    /\ emitted' = <<>>
    /\ last' = Ran("connected", NULL, FALSE)
    /\ UNCHANGED <<attrs, _edited, dataEdited, focused, notebookVars, tableVars>>

\* The element is taken out of the document; the class has no callback for it.
Disconnect ==
    /\ connected
    /\ connected' = FALSE
    /\ focused' = FALSE
    /\ emitted' = <<>>
    /\ last' = Ran("disconnected", NULL, FALSE)
    /\ UNCHANGED <<attrs, value, _originalContent, _edited, dataEdited,
                   notebookVars, tableVars>>

----------------------------------------------------------------------------
(***************************************************************************)
(* Live document                                                           *)
(***************************************************************************)

\* The elements a patched document can hold, in document order.
DocOrder == <<"A", "B", "C">>
Elems == {DocOrder[i] : i \in 1..Len(DocOrder)}

\* Most scrollIntoView calls followed.
MaxScrolls == 4

\* document.querySelector('.scroll-to'): the first marked element in
\* document order, or null.
querySelector(m) ==
    IF m = {} THEN NULL
    ELSE DocOrder[CHOOSE i \in 1..Len(DocOrder) :
                    /\ DocOrder[i] \in m
                    /\ \A j \in 1..(i - 1) : DocOrder[j] \notin m]

shouldScroll_always(scrollTo, lastTo) == scrollTo # NULL

\* Line 8: scrollTo && scrollTo !== lastScrolledTo
shouldScroll(scrollTo, lastTo) == scrollTo # NULL /\ scrollTo # lastTo

\* socket.on('update'): morphdom leaves the document with the elements m
\* carrying the marker.
OnUpdate(m) ==
    LET scrollTo == querySelector(m)
    IN  /\ marked' = m
        /\ IF shouldScroll(scrollTo, lastScrolledTo)
           THEN /\ Len(scrollLog) < MaxScrolls
                /\ scrollLog' = Append(scrollLog, scrollTo)
                /\ lastScrolledTo' = scrollTo
           ELSE UNCHANGED <<scrollLog, lastScrolledTo>>
        /\ emitted' = <<>>
        /\ last' = Ran("update", m, FALSE)
        /\ UNCHANGED <<textareaVars, tableVars>>

\* Keys and keydown events.
Keys == {"s", "Enter"}
KeyEvents == [key : Keys, ctrlKey : BOOLEAN, altKey : BOOLEAN, targetIsBody : BOOLEAN]

\* Array.prototype.join
RECURSIVE join(_, _)
join(combo, sep) ==
    IF Len(combo) = 0 THEN ""
    ELSE IF Len(combo) = 1 THEN combo[1]
    ELSE combo[1] \o sep \o join(Tail(combo), sep)

getKeyCombo_altFirst(event) ==
    join((IF event.altKey THEN <<"Alt">> ELSE <<>>)
         \o (IF event.ctrlKey THEN <<"Ctrl">> ELSE <<>>)
         \o <<event.key>>, "+")

\* getKeyCombo(event)
getKeyCombo(event) ==
    LET c0 == <<>>
        c1 == IF event.ctrlKey THEN Append(c0, "Ctrl") ELSE c0
        c2 == IF event.altKey THEN Append(c1, "Alt") ELSE c1
        c3 == Append(c2, event.key)
    IN  join(c3, "+")

\* The document's 'keydown' listener; last.arg keeps the event, last.threw
\* is unused, and the default action is prevented for a body target.
OnKeydown(event) ==
    /\ emitted' = <<Emit("keydown", [key |-> getKeyCombo(event)])>>
    /\ last' = Ran("keydown", event, FALSE)
    /\ UNCHANGED <<textareaVars, notebookVars, tableVars>>

OnConnect_noPayload ==
    /\ emitted' = <<Emit("loaded", Undefined)>>
    /\ last' = Ran("connect", NULL, FALSE)
    /\ UNCHANGED <<textareaVars, notebookVars, tableVars>>

\* socket.on('connect')
OnConnect ==
    /\ emitted' = <<Emit("loaded", EmptyObject)>>
    /\ last' = Ran("connect", NULL, FALSE)
    /\ UNCHANGED <<textareaVars, notebookVars, tableVars>>

\* socket.on('code_saved'): logs only.
OnCodeSaved ==
    /\ emitted' = <<>>
    /\ last' = Ran("code_saved", NULL, FALSE)
    /\ UNCHANGED <<textareaVars, notebookVars, tableVars>>

\* The cell whose code field is the tracked textarea above (id code_c1), and
\* a cell id no element of the document has.
CellIds == {"c1", "c9"}

codeContent_attribute(cellId) == IF connected /\ cellId = "c1" THEN attrs["text"] ELSE NULL

\* document.getElementById(`code_${cellId}`).content: the field's displayed
\* value, or NULL when the lookup finds no element.
codeContent(cellId) == IF connected /\ cellId = "c1" THEN value ELSE NULL

\* saveCode(cellId); a failed lookup is a TypeError.
saveCode(cellId) ==
    LET content == codeContent(cellId)
    IN  IF content = NULL THEN Outcome(<<>>, TRUE)
        ELSE Outcome(<<Emit("save_code", [cell_id |-> cellId, content |-> content])>>, FALSE)

\* runCell(cellId)
runCell(cellId) ==
    LET saved == saveCode(cellId)
    IN  IF saved.threw THEN saved
        ELSE Outcome(Append(saved.emits, Emit("run_cell", [cell_id |-> cellId])), FALSE)

SaveCode(cellId) ==
    /\ emitted' = saveCode(cellId).emits
    /\ last' = Ran("saveCode", cellId, saveCode(cellId).threw)
    /\ UNCHANGED <<textareaVars, notebookVars, tableVars>>

RunCell(cellId) ==
    /\ emitted' = runCell(cellId).emits
    /\ last' = Ran("runCell", cellId, runCell(cellId).threw)
    /\ UNCHANGED <<textareaVars, notebookVars, tableVars>>

----------------------------------------------------------------------------
(***************************************************************************)
(* Remote table                                                            *)
(***************************************************************************)

\* URLs are sequences of characters; the query suffix is one token.
NoUrl == <<NULL>>
Urls == {<<"/", "a">>, <<"/", "b", "?", "x">>, <<"?", "y">>}
GetColumns == <<"get-columns=true">>

\* Most table elements rendered in one run.
MaxTables == 3

\* What a column fetch can answer: a JSON array of names, or something else.
Responses == {[isArray |-> TRUE, items |-> <<"a", "b">>],
              [isArray |-> TRUE, items |-> <<"b">>],
              [isArray |-> TRUE, items |-> <<>>],
              [isArray |-> FALSE, items |-> <<>>]}

\* The error text jQuery hands to the error callback.
ErrorTexts == {"Not Found", "timeout"}

\* String.prototype.indexOf for one character: 0-based, -1 when absent.
indexOf(str, ch) ==
    IF \E i \in 1..Len(str) : str[i] = ch
    THEN (CHOOSE i \in 1..Len(str) : str[i] = ch /\ \A j \in 1..(i - 1) : str[j] # ch) - 1
    ELSE -1

columnsUrl_positive(url) ==
    url \o (IF indexOf(url, "?") > 0 THEN <<"&">> ELSE <<"?">>) \o GetColumns

\* Line 39: the URL of the column fetch.
columnsUrl(url) ==
    url \o (IF indexOf(url, "?") = -1 THEN <<"?">> ELSE <<"&">>) \o GetColumns

urlChanged_always(oldValue, newValue) == TRUE

\* Line 17: oldValue !== newValue
urlChanged(oldValue, newValue) == oldValue # newValue

\* Lines 38-40: the request $.ajax issues for the table rendered as number id.
Request(id, url) == [id |-> id, url |-> columnsUrl(url), method |-> "POST", serverUrl |-> url]

pendingAfterChange_cancel(inFlight, id, url) == {Request(id, url)}

\* The requests in flight after initializeTable has issued its own.
pendingAfterChange(inFlight, id, url) == inFlight \cup {Request(id, url)}

\* attributeChangedCallback('server-url', oldValue, newValue), with the ready
\* callback of initializeTable run as part of it.  NoUrl is a removed
\* attribute: the markup is rendered, then serverUrl.indexOf is a TypeError.
ServerUrlChanged(newValue) ==
    /\ newValue = NoUrl => serverUrl # NoUrl
    /\ serverUrl' = newValue
    /\ IF urlChanged(serverUrl, newValue)
       THEN /\ Len(tables) < MaxTables
            /\ tables' = Append(tables, <<>>)
            /\ shadowTable' = Len(tables) + 1
            /\ pending' = IF newValue = NoUrl THEN pending
                          ELSE pendingAfterChange(pending, Len(tables) + 1, newValue)
            /\ last' = Ran("server-url", <<serverUrl, newValue>>, newValue = NoUrl)
       ELSE /\ UNCHANGED <<tables, shadowTable, pending>>
            /\ last' = Ran("server-url", <<serverUrl, newValue>>, FALSE)
    /\ emitted' = <<>>
    /\ UNCHANGED <<alerts, textareaVars, notebookVars>>

dtColumns_reversed(columns) ==
    [i \in 1..Len(columns) |-> [data |-> columns[Len(columns) + 1 - i],
                                title |-> columns[Len(columns) + 1 - i]]]

\* Lines 42-45: columns.map(column => ({data: column, title: column}))
dtColumns(columns) ==
    [i \in 1..Len(columns) |-> [data |-> columns[i], title |-> columns[i]]]

\* Lines 48-52: the options handed to DataTable().
DataTableOptions(url, columns) ==
    [processing |-> TRUE, serverSide |-> TRUE, ajax |-> [url |-> url, type |-> "POST"],
     columns |-> dtColumns(columns), searchDelay |-> 500]

\* Line 47: getElementById('data-table') finds the table now in the shadow
\* root, whichever request is answered.
successTarget(request, current) == current

\* The success callback of request r, answered with response.
AjaxSuccess(r, response) ==
    /\ r \in pending
    /\ pending' = pending \ {r}
    /\ IF response.isArray
       THEN LET t == successTarget(r, shadowTable)
            IN  tables' = [tables EXCEPT ![t] =
                              Append(@, DataTableOptions(r.serverUrl, response.items))]
       ELSE UNCHANGED tables                                   \* columns.map is a TypeError
    /\ last' = Ran("success", [request |-> r, response |-> response], ~response.isArray)
    /\ emitted' = <<>>
    /\ UNCHANGED <<serverUrl, shadowTable, alerts, textareaVars, notebookVars>>

alertText_generic(error) == "Failed to fetch columns"

\* Line 56
alertText(error) == "Failed to fetch columns: " \o error

\* The error callback of request r, failing with error.
AjaxError(r, error) ==
    /\ r \in pending
    /\ pending' = pending \ {r}
    /\ alerts' = Append(alerts, alertText(error))
    /\ last' = Ran("error", [request |-> r, error |-> error], FALSE)
    /\ emitted' = <<>>
    /\ UNCHANGED <<serverUrl, tables, shadowTable, textareaVars, notebookVars>>

----------------------------------------------------------------------------
(***************************************************************************)
(* Specifications: one per widget, over the state after construction.      *)
(***************************************************************************)

Init ==
    /\ attrs = [a \in AttrNames |-> NULL]
    /\ value = ""
    /\ _originalContent = ""
    /\ _edited = FALSE
    /\ dataEdited = "false"
    /\ focused = FALSE
    /\ connected = FALSE
    /\ lastScrolledTo = NULL
    /\ marked = {}
    /\ scrollLog = <<>>
    /\ serverUrl = NoUrl
    /\ tables = <<>>
    /\ shadowTable = 0
    /\ pending = {}
    /\ alerts = <<>>
    /\ emitted = <<>>
    /\ last = Ran("constructor", NULL, FALSE)

NextTextarea ==
    \/ \E v \in Texts : OnInput(v)
    \/ \E v \in Texts \cup {NULL} : TextAttributeChanged(v)
    \/ \E v \in FocusAttrValues \cup {NULL} : FocusAttributeChanged(v)
    \/ \E n \in {"modify-event", "focus-event"} :
          \E v \in EventAttrValues \cup {NULL} : SetEventAttribute(n, v)
    \/ UserFocus
    \/ UserBlur
    \/ ConnectedCallback
    \/ Disconnect
    \/ \E c \in CellIds : SaveCode(c)
    \/ \E c \in CellIds : RunCell(c)

NextNotebook ==
    \/ \E m \in SUBSET Elems : OnUpdate(m)
    \/ \E e \in KeyEvents : OnKeydown(e)
    \/ OnConnect
    \/ OnCodeSaved

NextTable ==
    \/ \E u \in Urls \cup {NoUrl} : ServerUrlChanged(u)
    \/ \E r \in pending : \E response \in Responses : AjaxSuccess(r, response)
    \/ \E r \in pending : \E e \in ErrorTexts : AjaxError(r, e)

SpecTextarea == Init /\ [][NextTextarea]_vars
SpecNotebook == Init /\ [][NextNotebook]_vars
SpecTable == Init /\ [][NextTable]_vars

----------------------------------------------------------------------------
(***************************************************************************)
(* Tracked textarea: properties, checked under SpecTextarea                *)
(***************************************************************************)

\* C1: a text attribute update that arrives while the field is marked edited
\* leaves the displayed value unchanged; one that arrives while the field is
\* not edited sets the displayed value to the new text.
C1_TextUpdateKeepsLocalEdit ==
    [][last'.op = "text" =>
          /\ _edited => value' = value
          /\ (~_edited /\ last'.arg # NULL) => value' = last'.arg]_vars

\* C1 witness: the field shows the typed "Y" right after an external update
\* to "X" reached it while edited.
C1_Witness ==
    /\ last.op = "text" /\ last.arg = "X"
    /\ _edited /\ value = "Y" /\ _originalContent = "X"

\* C2: right after every input event the edited flag is true exactly when the
\* displayed value differs from the last externally provided text value.
C2_EditedIffDiffers ==
    [][last'.op = "input" =>
          /\ _edited' <=> (value' # _originalContent')
          /\ attrs'["text"] # NULL => (_edited' <=> (value' # attrs'["text"]))
          /\ dataEdited' = (IF _edited' THEN "true" ELSE "false")]_vars

\* C2 witness: after an external "Z", the user has typed back to exactly "Z"
\* and the field is not edited.
C2_Witness ==
    /\ last.op = "input" /\ last.arg = "Z"
    /\ attrs["text"] = "Z" /\ value = "Z" /\ ~_edited

\* C10 as stated: on every input event, a set modify-event attribute gives
\* exactly one emitted message, an unset one gives none (an empty attribute
\* is read as unset).
C10_Original ==
    [][last'.op = "input" =>
          IF Truthy(attrs'["modify-event"]) THEN Len(emitted') = 1 ELSE emitted' = <<>>]_vars

\* C10 amended: on every input event, a modify-event attribute holding a JSON
\* object with a name and params gives exactly one message, with that name and
\* those params extended with content = the displayed value after the input,
\* whether or not the field is left edited; an absent or empty attribute gives
\* no message; any other attribute value makes the listener throw after the
\* edited flag is updated, and gives no message.
C10_ModifyEventEmitted ==
    [][last'.op = "input" =>
          LET modifyEvent == attrs'["modify-event"]
              parsed == JSONparse(modifyEvent)
          IN  IF modifyEvent \in {NULL, ""}
              THEN emitted' = <<>> /\ ~last'.threw
              ELSE IF parsed.ok /\ "params" \in DOMAIN parsed.val
              THEN /\ Len(emitted') = 1
                   /\ ~last'.threw
                   /\ emitted'[1].name = parsed.val.name
                   /\ DOMAIN emitted'[1].data = DOMAIN parsed.val.params \cup {"content"}
                   /\ emitted'[1].data["content"] = value'
                   /\ \A k \in DOMAIN parsed.val.params \ {"content"} :
                         emitted'[1].data[k] = parsed.val.params[k]
              ELSE emitted' = <<>> /\ last'.threw]_vars

\* C10 witness: an input that leaves the field not edited has emitted the
\* configured "edit" message with the displayed value as content.
C10_Witness ==
    /\ last.op = "input" /\ ~_edited /\ value = "X"
    /\ attrs["modify-event"] = EvEdit
    /\ emitted = <<Emit("edit", [cell_id |-> "c1", content |-> "X"])>>

----------------------------------------------------------------------------
(***************************************************************************)
(* Live document: properties, checked under SpecNotebook                   *)
(***************************************************************************)

\* C5 as stated: over any sequence of updates, scroll-into-view is triggered
\* at most once per distinct element, also when the marker moves from A to B
\* and back to A.
C5_Original ==
    \A e \in Elems : Cardinality({i \in 1..Len(scrollLog) : scrollLog[i] = e}) <= 1

\* C5 amended: over any sequence of updates, scroll-into-view is never
\* triggered twice in a row for the same element, whatever updates without a
\* marker lie in between: an element is scrolled to again only after another
\* element was scrolled to, and the remembered target is the last one scrolled.
C5_NoRepeatedScroll ==
    /\ \A i \in 1..(Len(scrollLog) - 1) : scrollLog[i] # scrollLog[i + 1]
    /\ lastScrolledTo = (IF scrollLog = <<>> THEN NULL ELSE scrollLog[Len(scrollLog)])

\* C5 witness: the marker went from A to B and back to A, and A was scrolled
\* into view a second time.
C5_Witness ==
    /\ last.op = "update" /\ marked = {"A"}
    /\ scrollLog = <<"A", "B", "A">>

\* C6: after an update, a marked element that is not the remembered one is
\* scrolled into view exactly once and becomes the remembered one; with no
\* marked element, or the remembered one marked, nothing is scrolled and the
\* remembered target stays.
C6_ScrollOnNewTarget ==
    [][last'.op = "update" =>
          LET target == querySelector(marked')
          IN  IF target # NULL /\ target # lastScrolledTo
              THEN scrollLog' = Append(scrollLog, target) /\ lastScrolledTo' = target
              ELSE UNCHANGED <<scrollLog, lastScrolledTo>>]_vars

\* C6 witness: an update marking B, after A had been scrolled to, has scrolled
\* B into view and remembers it.
C6_Witness ==
    /\ last.op = "update" /\ last.arg = {"B", "C"}
    /\ scrollLog = <<"A", "B">> /\ lastScrolledTo = "B"

\* C9: every keydown event, whatever its target, emits exactly one keydown
\* message whose key is "Ctrl+" if Ctrl is held, then "Alt+" if Alt is held,
\* then the event key.
C9_KeyCombo ==
    [][last'.op = "keydown" =>
          LET e == last'.arg
              combo == (IF e.ctrlKey THEN "Ctrl+" ELSE "")
                       \o (IF e.altKey THEN "Alt+" ELSE "") \o e.key
          IN  emitted' = <<Emit("keydown", [key |-> combo])>>]_vars

\* C9 witness: Ctrl+Alt held with key s, on a target other than the body, has
\* emitted the key "Ctrl+Alt+s".
C9_Witness ==
    /\ last.op = "keydown"
    /\ last.arg = [key |-> "s", ctrlKey |-> TRUE, altKey |-> TRUE, targetIsBody |-> FALSE]
    /\ emitted = <<Emit("keydown", [key |-> "Ctrl+Alt+s"])>>

----------------------------------------------------------------------------
(***************************************************************************)
(* Remote table: properties, checked under SpecTable                       *)
(***************************************************************************)

\* C3 as stated: a server-url notification with an equal value changes
\* nothing; one with a different value renders a fresh empty table and issues
\* exactly one new column-fetch request.
C3_Original ==
    [][last'.op = "server-url" =>
          IF last'.arg[1] = last'.arg[2]
          THEN UNCHANGED <<tables, shadowTable, pending>>
          ELSE /\ tables' = Append(tables, <<>>)
               /\ shadowTable' = Len(tables')
               /\ pending \subseteq pending'
               /\ Cardinality(pending' \ pending) = 1]_vars

\* C3 amended: a server-url notification with an equal value causes no
\* re-render and no request; one with a different value renders a fresh empty
\* table, and issues exactly one new column-fetch request when the new value
\* is a URL; when the attribute was removed, building the request URL throws
\* and no request is issued.
C3_RerenderOnChange ==
    [][last'.op = "server-url" =>
          IF last'.arg[1] = last'.arg[2]
          THEN UNCHANGED <<tables, shadowTable, pending>>
          ELSE /\ tables' = Append(tables, <<>>)
               /\ shadowTable' = Len(tables')
               /\ IF last'.arg[2] # NoUrl
                  THEN /\ pending \subseteq pending'
                       /\ Cardinality(pending' \ pending) = 1
                       /\ \A r \in pending' \ pending : r.serverUrl = last'.arg[2]
                       /\ ~last'.threw
                  ELSE pending' = pending /\ last'.threw]_vars

\* C3 witness: the URL went from one URL to another; a second table is
\* rendered, not initialized, and two requests are in flight.
C3_Witness ==
    /\ last.op = "server-url"
    /\ last.arg = <<<<"/", "a">>, <<"/", "b", "?", "x">>>>
    /\ shadowTable = 2 /\ tables = <<<<>>, <<>>>>
    /\ Cardinality(pending) = 2

\* C4: a server-url change cancels no request in flight, and the success
\* callback of any request, also one issued for an earlier URL, initializes
\* the table now rendered with that request's columns and that request's URL
\* as data URL.
C4_StaleResponseApplies ==
    [][/\ last'.op = "server-url" => pending \subseteq pending'
       /\ (last'.op = "success" /\ last'.arg.response.isArray) =>
             LET r == last'.arg.request
                 calls == tables'[shadowTable']
                 call == calls[Len(calls)]
             IN  /\ calls = Append(tables[shadowTable], call)
                 /\ \A t \in 1..Len(tables) : t # shadowTable => tables'[t] = tables[t]
                 /\ call.ajax.url = r.serverUrl
                 /\ [i \in 1..Len(call.columns) |-> call.columns[i].data]
                       = last'.arg.response.items]_vars

\* C4 witness: the answer to the request for /a arrived after the URL became
\* /b?x; the table rendered for /b?x is initialized with data URL /a.
C4_Witness ==
    /\ last.op = "success" /\ last.arg.request.id = 1
    /\ last.arg.request.serverUrl = <<"/", "a">>
    /\ serverUrl = <<"/", "b", "?", "x">> /\ shadowTable = 2
    /\ tables[1] = <<>>
    /\ Len(tables[2]) = 1 /\ tables[2][1].ajax.url = <<"/", "a">>
    /\ tables[2][1].columns = <<[data |-> "a", title |-> "a"], [data |-> "b", title |-> "b"]>>

\* C7: a failed column fetch triggers exactly one alert, carrying the error
\* text, issues no request and initializes no table.
C7_ErrorAlertsOnce ==
    [][last'.op = "error" =>
          /\ alerts' = Append(alerts, "Failed to fetch columns: " \o last'.arg.error)
          /\ pending' = pending \ {last'.arg.request}
          /\ UNCHANGED <<tables, shadowTable>>]_vars

\* C7 witness: the only request failed with "Not Found": one alert, nothing
\* in flight, the table not initialized.
C7_Witness ==
    /\ last.op = "error" /\ last.arg.error = "Not Found"
    /\ alerts = <<"Failed to fetch columns: Not Found">>
    /\ pending = {} /\ tables = <<<<>>>>

\* C8: a successful column fetch returning a list of names makes one
\* DataTable() call with one column per name, in the same order, the name as
\* data key and as title, in server-side mode, on the server URL without the
\* get-columns suffix.
C8_ColumnsFromNames ==
    [][(last'.op = "success" /\ last'.arg.response.isArray) =>
          LET r == last'.arg.request
              names == last'.arg.response.items
              calls == tables'[shadowTable']
              call == calls[Len(calls)]
          IN  /\ Len(calls) = Len(tables[shadowTable]) + 1
              /\ Len(call.columns) = Len(names)
              /\ \A i \in 1..Len(names) :
                    call.columns[i] = [data |-> names[i], title |-> names[i]]
              /\ call.serverSide
              /\ call.ajax = [url |-> r.serverUrl, type |-> "POST"]
              /\ Len(r.url) = Len(call.ajax.url) + 2
              /\ SubSeq(r.url, 1, Len(call.ajax.url)) = call.ajax.url
              /\ r.url[Len(r.url)] = "get-columns=true"]_vars

\* C8 witness: the answer ["a","b"] has configured exactly two columns,
\* titled a and b.
C8_Witness ==
    /\ last.op = "success" /\ last.arg.response.items = <<"a", "b">>
    /\ last.arg.request.serverUrl = serverUrl
    /\ Len(tables[shadowTable]) = 1
    /\ tables[shadowTable][1].columns
         = <<[data |-> "a", title |-> "a"], [data |-> "b", title |-> "b"]>>

----------------------------------------------------------------------------
(***************************************************************************)
(* Tracked textarea, continued: properties checked under SpecTextarea      *)
(***************************************************************************)

\* C11 as stated: a focus attribute change with a non-empty new value leaves
\* the field focused, one to an empty or removed value leaves it blurred, and
\* neither changes the value, the last external text or the edited flag.
C11_Original ==
    [][last'.op = "focusAttr" =>
          /\ focused' = (last'.arg \notin {NULL, ""})
          /\ UNCHANGED <<value, _originalContent, _edited, dataEdited>>]_vars

\* C11 amended: a focus attribute change with a non-empty new value focuses
\* the field when the element is in the document (on an element that is not
\* connected the focus() call has no effect), a change to an empty or removed
\* value blurs it, and neither changes the value, the last external text or
\* the edited flag.
C11_FocusAttribute ==
    [][last'.op = "focusAttr" =>
          /\ focused' = (last'.arg \notin {NULL, ""} /\ connected)
          /\ UNCHANGED <<value, _originalContent, _edited, dataEdited>>]_vars

\* C11 witness: focus="1" has focused an edited field, whose typed "Y" and
\* external "X" are still there.
C11_Witness ==
    /\ last.op = "focusAttr" /\ last.arg = "1" /\ focused
    /\ _edited /\ value = "Y" /\ _originalContent = "X"

\* C12 as stated: each time the field gains the focus, a set focus-event
\* attribute gives exactly one emitted message and an unset one gives none
\* (an empty attribute is read as unset).
C12_Original ==
    [][(~focused /\ focused') =>
          IF Truthy(attrs'["focus-event"]) THEN Len(emitted') = 1 ELSE emitted' = <<>>]_vars

\* C12 amended: each time the field gains the focus, by user action or through
\* the focus attribute, a focus-event attribute holding a JSON object with a
\* name gives exactly one message, with that name and exactly the configured
\* params (no content added; no data when the object has no params); an
\* absent or empty attribute gives no message; an attribute that is not JSON
\* makes the listener throw, and gives no message.
C12_FocusEventEmitted ==
    [][(~focused /\ focused') =>
          LET focusEvent == attrs'["focus-event"]
              parsed == JSONparse(focusEvent)
          IN  /\ last'.op \in {"focus", "focusAttr"}
              /\ IF focusEvent \in {NULL, ""}
                 THEN emitted' = <<>> /\ ~last'.threw
                 ELSE IF ~parsed.ok
                 THEN emitted' = <<>> /\ last'.threw
                 ELSE /\ Len(emitted') = 1
                      /\ ~last'.threw
                      /\ emitted'[1].name = parsed.val.name
                      /\ emitted'[1].data = (IF "params" \in DOMAIN parsed.val
                                             THEN parsed.val.params ELSE Undefined)]_vars

\* C12 witness: the focus attribute has focused the field, and the configured
\* "edit" message went out with its params alone.
C12_Witness ==
    /\ last.op = "focusAttr" /\ focused
    /\ attrs["focus-event"] = EvEdit /\ value = "Y"
    /\ emitted = <<Emit("edit", [cell_id |-> "c1"])>>

\* C15: every runCell(cellId) of a cell whose text field is in the document
\* emits save_code for that cell id and then run_cell for it, nothing else,
\* and the content of save_code is the field's displayed value, local edits
\* included; without such a field the lookup throws and nothing is emitted.
C15_SaveBeforeRun ==
    [][last'.op = "runCell" =>
          LET cellId == last'.arg
          IN  IF connected /\ cellId = "c1"
              THEN /\ emitted' = <<Emit("save_code", [cell_id |-> cellId, content |-> value]),
                                   Emit("run_cell", [cell_id |-> cellId])>>
                   /\ ~last'.threw
              ELSE emitted' = <<>> /\ last'.threw]_vars

\* C15 witness: runCell on a field showing the typed "Y" over the external "X"
\* has saved "Y" and then asked to run the cell.
C15_Witness ==
    /\ last.op = "runCell" /\ last.arg = "c1"
    /\ _edited /\ value = "Y" /\ attrs["text"] = "X"
    /\ emitted = <<Emit("save_code", [cell_id |-> "c1", content |-> "Y"]),
                   Emit("run_cell", [cell_id |-> "c1"])>>


\* C16: in every reachable state, whenever the edited flag is false the
\* displayed value equals the last externally provided text value, the one
\* the element remembers in _originalContent.
C16_NotEditedShowsExternal ==
    ~_edited => value = _originalContent

\* C17: a text attribute update whose new value equals the displayed value
\* clears the edited flag with no input event; a text update to any other
\* value while edited keeps the flag true and the displayed value, and only
\* replaces the remembered external value.
C17_EchoClearsEdited ==
    [][last'.op = "text" =>
          /\ last'.arg = value => (~_edited' /\ dataEdited' = "false" /\ value' = value)
          /\ (_edited /\ last'.arg # value) =>
                /\ _edited' /\ dataEdited' = dataEdited
                /\ value' = value
                /\ _originalContent' = last'.arg
          /\ UNCHANGED <<focused, connected>>]_vars

\* C17 witness: an external "Z" reached a field edited to "Y": still edited,
\* still showing "Y", and "Z" is the remembered external value.
C17_Witness ==
    /\ last.op = "text" /\ last.arg = "Z"
    /\ _edited /\ dataEdited = "true" /\ value = "Y" /\ _originalContent = "Z"
    /\ connected

\* C19: connecting the element sets the remembered external value and the
\* displayed value to the text attribute, or to the empty string when it is
\* absent, and leaves the edited flag as it was, also when it was true.
C19_ConnectKeepsEdited ==
    [][last'.op = "connected" =>
          /\ _originalContent' = (IF attrs["text"] = NULL THEN "" ELSE attrs["text"])
          /\ value' = _originalContent'
          /\ _edited' = _edited /\ dataEdited' = dataEdited]_vars

\* C19 witness: an edited element was connected again: it shows the external
\* "X" and is still marked edited.
C19_Witness ==
    /\ last.op = "connected" /\ _edited /\ dataEdited = "true"
    /\ attrs["text"] = "X" /\ value = "X" /\ _originalContent = "X"

----------------------------------------------------------------------------
(***************************************************************************)
(* Live document, continued: properties checked under SpecNotebook         *)
(***************************************************************************)

\* C13: every connect event emits exactly one message, "loaded" with an empty
\* payload, and no other handler of the live document emits "loaded".
C13_LoadedOncePerConnect ==
    [][IF last'.op = "connect"
       THEN emitted' = <<Emit("loaded", EmptyObject)>>
       ELSE \A i \in 1..Len(emitted') : emitted'[i].name # "loaded"]_vars

\* C13 witness: a connect that follows an update has emitted "loaded" once.
C13_Witness ==
    /\ last.op = "connect" /\ marked = {"A"} /\ scrollLog = <<"A">>
    /\ Len(emitted) = 1 /\ emitted[1].name = "loaded"
    /\ DOMAIN emitted[1].data = {}

----------------------------------------------------------------------------
(***************************************************************************)
(* Remote table, continued: properties checked under SpecTable             *)
(***************************************************************************)

\* C14: the column-fetch request goes by POST to the server URL followed by
\* "?get-columns=true" when the server URL holds no "?", and by
\* "&get-columns=true" when it holds one.
C14_ColumnsRequestUrl ==
    [][last'.op = "server-url" =>
          \A r \in pending' \ pending :
              LET url == last'.arg[2]
                  hasQuery == \E i \in 1..Len(url) : url[i] = "?"
              IN  /\ r.method = "POST"
                  /\ r.url = url \o <<IF hasQuery THEN "&" ELSE "?", "get-columns=true">>]_vars

\* C14 witness: requests are in flight for a URL without a query, for one with
\* a query and for one that starts with "?".
C14_Witness ==
    /\ last.op = "server-url"
    /\ {r.url : r \in pending} =
         {<<"/", "a", "?", "get-columns=true">>,
          <<"/", "b", "?", "x", "&", "get-columns=true">>,
          <<"?", "y", "&", "get-columns=true">>}

\* C18: whatever the server-url changes and the delivery order of the
\* answers, no table element gets more than one DataTable() call, and once
\* every answer is delivered an initialized rendered table is bound to the
\* latest server-url value.
C18_InitializedOnceForLatest ==
    /\ \A t \in 1..Len(tables) : Len(tables[t]) <= 1
    /\ (pending = {} /\ shadowTable > 0 /\ serverUrl # NoUrl) =>
          \A i \in 1..Len(tables[shadowTable]) : tables[shadowTable][i].ajax.url = serverUrl

====
